---- MODULE Spec2Model ----
(***************************************************************************)
(* Voting Simulation API (src/main.py): the verification-and-voting state  *)
(* machine over the collections voter, candidate, otprequest,              *)
(* verification and vote.  Every request handler is cut at its store       *)
(* operations (find_one, insert_one, update_one): one action per store     *)
(* operation together with the local computation that follows it, so that  *)
(* concurrent requests interleave between store operations.                *)
(***************************************************************************)
EXTENDS Integers, Sequences, FiniteSets, TLC

VARIABLES voter, otprequest, verification, vote, now, ticks, hs, ret, out

vars == <<voter, otprequest, verification, vote, now, ticks, hs, ret, out>>

(* ------------------------------ bounds -------------------------------- *)

\* the most otprequest documents a behaviour inserts
MaxOtp == 2
\* the most times the clock advances
MaxTicks == 2
\* the same, while two requests run concurrently
MaxOtpRace == 1
MaxTicksRace == 1
\* the most vote documents the tally is computed over
MaxVotes == 3

(* ------------------------- program constants -------------------------- *)

\* expires_at = _now_ts() + 300
OtpTtl == 300
\* otp = str(int(time.time()) % 900000 + 100000)
OtpMod == 900000
OtpBase == 100000

(* ------------------------------ data ---------------------------------- *)

\* the aadhaars of the seeded voter documents
Voters == {"111122223333", "444455556666", "777788889999"}
\* an aadhaar no voter document has
UnknownAadhaar == "000000000000"
Aadhaars == Voters \cup {UnknownAadhaar}

\* the worker threads serving requests concurrently
Handlers == {1, 2}

\* None, for a face_hash
NoHash == "None"
\* None, for otp_verified_at and face_verified_at; int(time.time()) is
\* positive, so 0 is the one falsy value a timestamp field holds
NoTime == 0

\* the seeded candidate documents in insertion order; id is str(_id)
candidate ==
    << [ id |-> "c1", name |-> "Alice Johnson", party |-> "Unity Party" ],
       [ id |-> "c2", name |-> "Bob Singh", party |-> "Progress Alliance" ],
       [ id |-> "c3", name |-> "Carla Gomez", party |-> "Green Front" ] >>

\* candidate_id strings a client sends: "C1" is the upper-case spelling of the
\* hex string "c1", "c9" a well-formed id of no document, "zz" not hex at all
CandidateIdInputs == {"c1", "C1", "c2", "c9", "zz"}

\* image_base64 payloads a client sends: an optional data-URI prefix and a
\* base64 body; body "!" has incorrect padding
ImageInputs ==
    { [prefix |-> FALSE, body |-> "A"], [prefix |-> TRUE, body |-> "A"],
      [prefix |-> FALSE, body |-> "B"], [prefix |-> FALSE, body |-> "!"] }

\* an otp string that send_otp never generates
WrongOtp == 0

(* ----------------------------- helpers -------------------------------- *)

now_ts == now

\* str(int(time.time()) % 900000 + 100000), kept as the number it spells
GenOtp(t) == (t % OtpMod) + OtpBase

\* base64.b64decode: the bytes, or "error" on incorrect padding
B64Decode(body) == IF body = "!" THEN "error" ELSE body

InvalidImage == "invalid"

\* _sha256_of_base64_image: the text after the first "," when there is one,
\* decoded, then digested (distinct bytes give distinct digests)
sha256_of_base64_image(img) ==
    LET stripped == img.body
        bytes == B64Decode(stripped)
    IN IF bytes = "error" THEN InvalidImage ELSE "sha256:" \o bytes

InvalidId == "InvalidId"

\* bson.ObjectId(s): bytes.fromhex accepts either case, so "C1" and "c1" are
\* the same ObjectId; a string that is not hex raises InvalidId
ObjectId(s) ==
    CASE s = "zz" -> InvalidId
      [] s = "C1" -> "c1"
      [] OTHER -> s

\* candidate.find_one({"_id": oid}): the document's position, 0 for None
FindCandidate(oid) ==
    IF \E i \in DOMAIN candidate : candidate[i].id = oid
    THEN CHOOSE i \in DOMAIN candidate : candidate[i].id = oid
    ELSE 0

\* find_one({"aadhaar": a}) on verification: the first document in natural
\* order, 0 for None
FindVerification(a) ==
    LET hits == { i \in DOMAIN verification : verification[i].aadhaar = a }
    IN IF hits = {} THEN 0 ELSE CHOOSE i \in hits : \A j \in hits : i <= j

\* time.time(), the float a created_at holds: the second and, within the
\* second, the number of documents the collection held at the insert
TimeOfInsert(coll) == << now, Len(coll) >>

\* x <= y for two such floats
NotAfter(x, y) == x[1] < y[1] \/ (x[1] = y[1] /\ x[2] <= y[2])

\* the same query without the aadhaar in its filter
FindOtpRequest_anyaadhaar(a, code) ==
    LET hits == { i \in DOMAIN otprequest : otprequest[i].otp = code }
    IN { i \in hits :
           \A j \in hits : NotAfter(otprequest[j].created_at, otprequest[i].created_at) }

\* find_one({"aadhaar": a, "otp": code}, sort=[("created_at", -1)]): the
\* positions the query may return, the matches with the newest created_at
FindOtpRequest(a, code) ==
    LET hits == { i \in DOMAIN otprequest :
                    otprequest[i].aadhaar = a /\ otprequest[i].otp = code }
    IN { i \in hits :
           \A j \in hits : NotAfter(otprequest[j].created_at, otprequest[i].created_at) }

\* create_document(collection_name, data): the document joins its collection
create_document(coll, doc) == Append(coll, doc)

\* a handler's frame: its position and the locals it still needs
Idle ==
    [ pc |-> "idle", aadhaar |-> UnknownAadhaar, cand |-> "", hash |-> NoHash,
      req |-> 0, ver |-> 0, enrolled |-> FALSE, otp |-> WrongOtp,
      voted |-> FALSE ]

\* what the step just taken returned to its client, NoRet when it returned nothing
NoRet ==
    [ op |-> "none", aadhaar |-> UnknownAadhaar, otp |-> WrongOtp,
      cand |-> "", hash |-> NoHash, enrolled |-> FALSE, has_voted |-> FALSE,
      otp_verified |-> FALSE, face_verified |-> FALSE, res |-> "none" ]

Return(op, a, res) ==
    [ NoRet EXCEPT !.op = op, !.aadhaar = a, !.res = res ]

(* ------------------------------- Init --------------------------------- *)

\* the state after startup_event: the seeded voters, nothing else
Init ==
    /\ voter = [ a \in Voters |-> [ face_hash |-> NoHash, has_voted |-> FALSE ] ]
    /\ otprequest = << >>
    /\ verification = << >>
    /\ vote = << >>
    /\ now = 1
    /\ ticks = 0
    /\ hs = [ h \in Handlers |-> Idle ]
    /\ ret = NoRet
    /\ out = << >>

(* ------------------------------ clock --------------------------------- *)

\* time passes: first by the lifetime of an otp, then by one more second
Tick ==
    /\ now' = now + (IF ticks % 2 = 0 THEN OtpTtl ELSE 1)
    /\ ticks' = ticks + 1
    /\ ret' = NoRet
    /\ UNCHANGED <<voter, otprequest, verification, vote, hs, out>>

(* ----------------------------- send_otp ------------------------------- *)

\* send_otp invalidating the earlier requests of the aadhaar
send_otp_invalidate(h, a) ==
    /\ hs[h].pc = "idle"
    /\ IF a \notin DOMAIN voter
       THEN /\ ret' = Return("send_otp", a, "NotFound")
            /\ UNCHANGED otprequest
       ELSE /\ LET otp == GenOtp(now)
                   expires_at == now_ts + OtpTtl
                   earlier == [ i \in DOMAIN otprequest |->
                                 IF otprequest[i].aadhaar = a
                                 THEN [ otprequest[i] EXCEPT !.expires_at = NoTime ]
                                 ELSE otprequest[i] ]
               IN /\ otprequest' = Append(earlier,
                        [ aadhaar |-> a, otp |-> otp, expires_at |-> expires_at,
                          verified |-> FALSE,
                          created_at |-> TimeOfInsert(otprequest) ])
                  /\ ret' = [ Return("send_otp", a, "ok") EXCEPT !.otp = otp ]
    /\ UNCHANGED <<voter, verification, vote, now, ticks, hs, out>>

\* lines 129-149; the voter documents are never deleted, so the lookup and
\* the one insert are taken together
send_otp(h, a) ==
    /\ hs[h].pc = "idle"
    /\ IF a \notin DOMAIN voter
       THEN /\ ret' = Return("send_otp", a, "NotFound")
            /\ UNCHANGED otprequest
       ELSE /\ LET otp == GenOtp(now)
                   expires_at == now_ts + OtpTtl
               IN /\ otprequest' = Append(otprequest,
                        [ aadhaar |-> a, otp |-> otp, expires_at |-> expires_at,
                          verified |-> FALSE,
                          created_at |-> TimeOfInsert(otprequest) ])
                  /\ ret' = [ Return("send_otp", a, "ok") EXCEPT !.otp = otp ]
    /\ UNCHANGED <<voter, verification, vote, now, ticks, hs, out>>

(* ---------------------------- verify_otp ------------------------------ *)

\* verify_otp without the expiry check of lines 160-161
verify_otp_find_noexpiry(h, a, code) ==
    /\ hs[h].pc = "idle"
    /\ LET found == FindOtpRequest(a, code)
           R(res) == [ Return("verify_otp", a, res) EXCEPT !.otp = code ]
       IN IF found = {}
          THEN /\ ret' = R("InvalidCredential")
               /\ UNCHANGED hs
          ELSE \E req \in found :
                 /\ hs' = [ hs EXCEPT ![h] =
                       [ Idle EXCEPT !.pc = "vo_update_req",
                                     !.aadhaar = a, !.req = req,
                                          !.otp = code ] ]
                 /\ ret' = NoRet
    /\ UNCHANGED <<voter, otprequest, verification, vote, now, ticks, out>>

\* verify_otp refusing a request that is already verified
verify_otp_find_onceonly(h, a, code) ==
    /\ hs[h].pc = "idle"
    /\ LET found == FindOtpRequest(a, code)
           R(res) == [ Return("verify_otp", a, res) EXCEPT !.otp = code ]
       IN IF found = {}
          THEN /\ ret' = R("InvalidCredential")
               /\ UNCHANGED hs
          ELSE \E req \in found :
                 IF otprequest[req].verified
                 THEN /\ ret' = R("InvalidCredential")
                      /\ UNCHANGED hs
                 ELSE IF otprequest[req].expires_at < now_ts
                 THEN /\ ret' = R("Expired")
                      /\ UNCHANGED hs
                 ELSE /\ hs' = [ hs EXCEPT ![h] =
                            [ Idle EXCEPT !.pc = "vo_update_req",
                                          !.aadhaar = a, !.req = req,
                                          !.otp = code ] ]
                      /\ ret' = NoRet
    /\ UNCHANGED <<voter, otprequest, verification, vote, now, ticks, out>>

\* lines 154-161: the lookup and the expiry check
verify_otp_find(h, a, code) ==
    /\ hs[h].pc = "idle"
    /\ LET found == FindOtpRequest(a, code)
           R(res) == [ Return("verify_otp", a, res) EXCEPT !.otp = code ]
       IN IF found = {}
          THEN /\ ret' = R("InvalidCredential")
               /\ UNCHANGED hs
          ELSE \E req \in found :
                 IF otprequest[req].expires_at < now_ts
                 THEN /\ ret' = R("Expired")
                      /\ UNCHANGED hs
                 ELSE /\ hs' = [ hs EXCEPT ![h] =
                            [ Idle EXCEPT !.pc = "vo_update_req",
                                          !.aadhaar = a, !.req = req,
                                          !.otp = code ] ]
                      /\ ret' = NoRet
    /\ UNCHANGED <<voter, otprequest, verification, vote, now, ticks, out>>

\* line 163
verify_otp_update_req(h) ==
    /\ hs[h].pc = "vo_update_req"
    /\ otprequest' = [ otprequest EXCEPT ![hs[h].req].verified = TRUE ]
    /\ hs' = [ hs EXCEPT ![h].pc = "vo_find_ver" ]
    /\ ret' = NoRet
    /\ UNCHANGED <<voter, verification, vote, now, ticks, out>>

\* line 166
verify_otp_find_ver(h) ==
    /\ hs[h].pc = "vo_find_ver"
    /\ hs' = [ hs EXCEPT ![h].pc = "vo_write_ver",
                         ![h].ver = FindVerification(hs[h].aadhaar) ]
    /\ ret' = NoRet
    /\ UNCHANGED <<voter, otprequest, verification, vote, now, ticks, out>>

\* verify_otp writing a whole verification document in place of the found one
verify_otp_write_ver_replace(h) ==
    /\ hs[h].pc = "vo_write_ver"
    /\ IF hs[h].ver # 0
       THEN verification' =
              [ verification EXCEPT ![hs[h].ver] =
                  [ aadhaar |-> hs[h].aadhaar, otp_verified_at |-> now_ts,
                    face_verified_at |-> NoTime ] ]
       ELSE verification' = Append(verification,
              [ aadhaar |-> hs[h].aadhaar, otp_verified_at |-> now_ts,
                face_verified_at |-> NoTime ])
    /\ hs' = [ hs EXCEPT ![h] = Idle ]
    /\ ret' = [ Return("verify_otp", hs[h].aadhaar, "ok")
                  EXCEPT !.otp = hs[h].otp ]
    /\ UNCHANGED <<voter, otprequest, vote, now, ticks, out>>

\* lines 167-172
verify_otp_write_ver(h) ==
    /\ hs[h].pc = "vo_write_ver"
    /\ IF hs[h].ver # 0
       THEN verification' =
              [ verification EXCEPT ![hs[h].ver].otp_verified_at = now_ts ]
       ELSE verification' = Append(verification,
              [ aadhaar |-> hs[h].aadhaar, otp_verified_at |-> now_ts,
                face_verified_at |-> NoTime ])
    /\ hs' = [ hs EXCEPT ![h] = Idle ]
    /\ ret' = [ Return("verify_otp", hs[h].aadhaar, "ok")
                  EXCEPT !.otp = hs[h].otp ]
    /\ UNCHANGED <<voter, otprequest, vote, now, ticks, out>>

(* ---------------------------- verify_face ----------------------------- *)

\* verify_face storing the presented digest before it refuses it
verify_face_find_overwrite(h, a, img) ==
    /\ hs[h].pc = "idle"
    /\ LET face_hash == sha256_of_base64_image(img)
           R(res) == [ Return("verify_face", a, res) EXCEPT !.hash = face_hash ]
           Go(pc) == [ Idle EXCEPT !.pc = pc, !.aadhaar = a, !.hash = face_hash ]
       IN IF a \notin DOMAIN voter
          THEN ret' = R("NotFound") /\ UNCHANGED <<hs, voter>>
          ELSE IF face_hash = InvalidImage
          THEN ret' = R("InvalidInput") /\ UNCHANGED <<hs, voter>>
          ELSE IF voter[a].face_hash = NoHash
          THEN /\ hs' = [ hs EXCEPT ![h] = Go("vf_update_voter") ]
               /\ ret' = NoRet
               /\ UNCHANGED voter
          ELSE IF voter[a].face_hash = face_hash
          THEN /\ hs' = [ hs EXCEPT ![h] = Go("vf_find_ver") ]
               /\ ret' = NoRet
               /\ UNCHANGED voter
          ELSE /\ ret' = R("FaceMismatch")
               /\ voter' = [ voter EXCEPT ![a].face_hash = face_hash ]
               /\ UNCHANGED hs
    /\ UNCHANGED <<otprequest, verification, vote, now, ticks, out>>

\* lines 177-193 up to the next store operation: the voter lookup, the
\* digest, and, for an enrolled voter, the comparison
verify_face_find(h, a, img) ==
    /\ hs[h].pc = "idle"
    /\ LET face_hash == sha256_of_base64_image(img)
           R(res) == [ Return("verify_face", a, res) EXCEPT !.hash = face_hash ]
           Go(pc) == [ Idle EXCEPT !.pc = pc, !.aadhaar = a, !.hash = face_hash ]
       IN IF a \notin DOMAIN voter
          THEN ret' = R("NotFound") /\ UNCHANGED hs
          ELSE IF face_hash = InvalidImage
          THEN ret' = R("InvalidInput") /\ UNCHANGED hs
          ELSE IF voter[a].face_hash = NoHash
          THEN /\ hs' = [ hs EXCEPT ![h] = Go("vf_update_voter") ]
               /\ ret' = NoRet
          ELSE IF voter[a].face_hash = face_hash
          THEN /\ hs' = [ hs EXCEPT ![h] = Go("vf_find_ver") ]
               /\ ret' = NoRet
          ELSE ret' = R("FaceMismatch") /\ UNCHANGED hs
    /\ UNCHANGED <<voter, otprequest, verification, vote, now, ticks, out>>

\* lines 185-187: the enrollment
verify_face_update_voter(h) ==
    /\ hs[h].pc = "vf_update_voter"
    /\ voter' = [ voter EXCEPT ![hs[h].aadhaar].face_hash = hs[h].hash ]
    /\ hs' = [ hs EXCEPT ![h].pc = "vf_find_ver", ![h].enrolled = TRUE ]
    /\ ret' = NoRet
    /\ UNCHANGED <<otprequest, verification, vote, now, ticks, out>>

\* line 195
verify_face_find_ver(h) ==
    /\ hs[h].pc = "vf_find_ver"
    /\ hs' = [ hs EXCEPT ![h].pc = "vf_write_ver",
                         ![h].ver = FindVerification(hs[h].aadhaar) ]
    /\ ret' = NoRet
    /\ UNCHANGED <<voter, otprequest, verification, vote, now, ticks, out>>

\* lines 196-201
verify_face_write_ver(h) ==
    /\ hs[h].pc = "vf_write_ver"
    /\ IF hs[h].ver # 0
       THEN verification' =
              [ verification EXCEPT ![hs[h].ver].face_verified_at = now_ts ]
       ELSE verification' = Append(verification,
              [ aadhaar |-> hs[h].aadhaar, otp_verified_at |-> NoTime,
                face_verified_at |-> now_ts ])
    /\ hs' = [ hs EXCEPT ![h] = Idle ]
    /\ ret' = [ Return("verify_face", hs[h].aadhaar, "ok")
                  EXCEPT !.hash = hs[h].hash, !.enrolled = hs[h].enrolled ]
    /\ UNCHANGED <<voter, otprequest, vote, now, ticks, out>>

(* ----------------------------- cast_vote ------------------------------ *)

\* cast_vote without the has_voted gate of lines 224-225
cast_vote_find_voter_nogate(h, a, cid) ==
    /\ hs[h].pc = "idle"
    /\ LET R(res) == [ Return("cast_vote", a, res) EXCEPT !.cand = cid ]
       IN IF a \notin DOMAIN voter
          THEN ret' = R("NotFound") /\ UNCHANGED hs
          ELSE /\ hs' = [ hs EXCEPT ![h] =
                     [ Idle EXCEPT !.pc = "cv_find_ver", !.aadhaar = a, !.cand = cid ] ]
               /\ ret' = NoRet
    /\ UNCHANGED <<voter, otprequest, verification, vote, now, ticks, out>>

\* lines 221-225
cast_vote_find_voter(h, a, cid) ==
    /\ hs[h].pc = "idle"
    /\ LET R(res) == [ Return("cast_vote", a, res) EXCEPT !.cand = cid ]
       IN IF a \notin DOMAIN voter
          THEN ret' = R("NotFound") /\ UNCHANGED hs
          ELSE IF voter[a].has_voted
          THEN ret' = R("AlreadyVoted") /\ UNCHANGED hs
          ELSE /\ hs' = [ hs EXCEPT ![h] =
                     [ Idle EXCEPT !.pc = "cv_find_ver", !.aadhaar = a, !.cand = cid ] ]
               /\ ret' = NoRet
    /\ UNCHANGED <<voter, otprequest, verification, vote, now, ticks, out>>

\* cast_vote asking for otp_verified_at alone on line 228
cast_vote_find_ver_otponly(h) ==
    /\ hs[h].pc = "cv_find_ver"
    /\ LET ver == FindVerification(hs[h].aadhaar)
       IN IF \/ ver = 0
             \/ verification[ver].otp_verified_at = NoTime
          THEN /\ hs' = [ hs EXCEPT ![h] = Idle ]
               /\ ret' = [ Return("cast_vote", hs[h].aadhaar, "IncompleteVerification")
                             EXCEPT !.cand = hs[h].cand ]
          ELSE /\ hs' = [ hs EXCEPT ![h].pc = "cv_find_cand" ]
               /\ ret' = NoRet
    /\ UNCHANGED <<voter, otprequest, verification, vote, now, ticks, out>>

\* cast_vote with the candidate gate of lines 235-240 ahead of the
\* verification gate of lines 227-229
cast_vote_find_ver_candfirst(h) ==
    /\ hs[h].pc = "cv_find_ver"
    /\ LET ver == FindVerification(hs[h].aadhaar)
           oid == ObjectId(hs[h].cand)
           cand == IF oid = InvalidId THEN 0 ELSE FindCandidate(oid)
           R(res) == [ Return("cast_vote", hs[h].aadhaar, res)
                         EXCEPT !.cand = hs[h].cand ]
       IN IF cand = 0
          THEN hs' = [ hs EXCEPT ![h] = Idle ] /\ ret' = R("CandidateNotFound")
          ELSE IF \/ ver = 0
                  \/ verification[ver].otp_verified_at = NoTime
                  \/ verification[ver].face_verified_at = NoTime
          THEN hs' = [ hs EXCEPT ![h] = Idle ] /\ ret' = R("IncompleteVerification")
          ELSE /\ hs' = [ hs EXCEPT ![h].pc = "cv_find_cand" ]
               /\ ret' = NoRet
    /\ UNCHANGED <<voter, otprequest, verification, vote, now, ticks, out>>

\* lines 227-229
cast_vote_find_ver(h) ==
    /\ hs[h].pc = "cv_find_ver"
    /\ LET ver == FindVerification(hs[h].aadhaar)
       IN IF \/ ver = 0
             \/ verification[ver].otp_verified_at = NoTime
             \/ verification[ver].face_verified_at = NoTime
          THEN /\ hs' = [ hs EXCEPT ![h] = Idle ]
               /\ ret' = [ Return("cast_vote", hs[h].aadhaar, "IncompleteVerification")
                             EXCEPT !.cand = hs[h].cand ]
          ELSE /\ hs' = [ hs EXCEPT ![h].pc = "cv_find_cand" ]
               /\ ret' = NoRet
    /\ UNCHANGED <<voter, otprequest, verification, vote, now, ticks, out>>

\* cast_vote without the candidate gate of lines 239-240
cast_vote_find_cand_nogate(h) ==
    /\ hs[h].pc = "cv_find_cand"
    /\ hs' = [ hs EXCEPT ![h].pc = "cv_insert_vote" ]
    /\ ret' = NoRet
    /\ UNCHANGED <<voter, otprequest, verification, vote, now, ticks, out>>

\* lines 232-240: the lookup of line 232 filters on _id equal to a class
\* object, which no document's _id is, and its result is overwritten by the
\* lookup of line 236; the candidate documents never change, so the two
\* lookups are taken together
cast_vote_find_cand(h) ==
    /\ hs[h].pc = "cv_find_cand"
    /\ LET oid == ObjectId(hs[h].cand)
           cand == IF oid = InvalidId THEN 0 ELSE FindCandidate(oid)
       IN IF cand = 0
          THEN /\ hs' = [ hs EXCEPT ![h] = Idle ]
               /\ ret' = [ Return("cast_vote", hs[h].aadhaar, "CandidateNotFound")
                             EXCEPT !.cand = hs[h].cand ]
          ELSE /\ hs' = [ hs EXCEPT ![h].pc = "cv_insert_vote" ]
               /\ ret' = NoRet
    /\ UNCHANGED <<voter, otprequest, verification, vote, now, ticks, out>>

\* line 243
cast_vote_insert_vote(h) ==
    /\ hs[h].pc = "cv_insert_vote"
    /\ vote' = create_document(vote,
                  [ aadhaar |-> hs[h].aadhaar, candidate_id |-> hs[h].cand ])
    /\ hs' = [ hs EXCEPT ![h].pc = "cv_update_voter" ]
    /\ ret' = NoRet
    /\ UNCHANGED <<voter, otprequest, verification, now, ticks, out>>

\* cast_vote returning success without the update of line 244
cast_vote_update_voter_noflag(h) ==
    /\ hs[h].pc = "cv_update_voter"
    /\ hs' = [ hs EXCEPT ![h] = Idle ]
    /\ ret' = [ Return("cast_vote", hs[h].aadhaar, "ok") EXCEPT !.cand = hs[h].cand ]
    /\ UNCHANGED <<voter, otprequest, verification, vote, now, ticks, out>>

\* cast_vote using up the verification of its aadhaar
cast_vote_update_voter_consume(h) ==
    /\ hs[h].pc = "cv_update_voter"
    /\ voter' = [ voter EXCEPT ![hs[h].aadhaar].has_voted = TRUE ]
    /\ verification' =
         [ i \in DOMAIN verification |->
             IF verification[i].aadhaar = hs[h].aadhaar
             THEN [ verification[i] EXCEPT !.otp_verified_at = NoTime,
                                          !.face_verified_at = NoTime ]
             ELSE verification[i] ]
    /\ hs' = [ hs EXCEPT ![h] = Idle ]
    /\ ret' = [ Return("cast_vote", hs[h].aadhaar, "ok") EXCEPT !.cand = hs[h].cand ]
    /\ UNCHANGED <<otprequest, vote, now, ticks, out>>

\* lines 244-246
cast_vote_update_voter(h) ==
    /\ hs[h].pc = "cv_update_voter"
    /\ voter' = [ voter EXCEPT ![hs[h].aadhaar].has_voted = TRUE ]
    /\ hs' = [ hs EXCEPT ![h] = Idle ]
    /\ ret' = [ Return("cast_vote", hs[h].aadhaar, "ok") EXCEPT !.cand = hs[h].cand ]
    /\ UNCHANGED <<otprequest, verification, vote, now, ticks, out>>

(* ------------------------------ status ------------------------------- *)

\* lines 206-208
status_find_voter(h, a) ==
    /\ hs[h].pc = "idle"
    /\ IF a \notin DOMAIN voter
       THEN ret' = Return("status", a, "NotFound") /\ UNCHANGED hs
       ELSE /\ hs' = [ hs EXCEPT ![h] =
                 [ Idle EXCEPT !.pc = "st_find_ver", !.aadhaar = a,
                               !.voted = voter[a].has_voted ] ]
            /\ ret' = NoRet
    /\ UNCHANGED <<voter, otprequest, verification, vote, now, ticks, out>>

\* lines 209-216
status_find_ver(h) ==
    /\ hs[h].pc = "st_find_ver"
    /\ LET ver == FindVerification(hs[h].aadhaar)
       IN ret' = [ Return("status", hs[h].aadhaar, "ok") EXCEPT
                     !.has_voted = hs[h].voted,
                     !.otp_verified =
                        (ver # 0 /\ verification[ver].otp_verified_at # NoTime),
                     !.face_verified =
                        (ver # 0 /\ verification[ver].face_verified_at # NoTime) ]
    /\ hs' = [ hs EXCEPT ![h] = Idle ]
    /\ UNCHANGED <<voter, otprequest, verification, vote, now, ticks, out>>

(* ------------------------------ results ------------------------------- *)

\* the candidate_id values of the vote documents
VotedIds == { vote[i].candidate_id : i \in DOMAIN vote }

\* the $group stage's count for one candidate_id
CountOf(cid) == Cardinality({ i \in DOMAIN vote : vote[i].candidate_id = cid })

\* list(votes.aggregate(pipeline)): one group per candidate_id, in an order
\* the store does not specify
AggOrders ==
    { agg \in [ 1..Cardinality(VotedIds) -> VotedIds ] :
        \A i, j \in DOMAIN agg : i # j => agg[i] # agg[j] }

\* cand_map.get(str(cand_id), {"name": "Unknown", "party": None})
CandInfo(cid) ==
    IF \E i \in DOMAIN candidate : candidate[i].id = cid
    THEN LET c == candidate[CHOOSE i \in DOMAIN candidate : candidate[i].id = cid]
         IN [ name |-> c.name, party |-> c.party ]
    ELSE [ name |-> "Unknown", party |-> "None" ]

\* lines 265-269: one entry per group
VotedEntries(agg) ==
    [ i \in DOMAIN agg |->
        [ candidate_id |-> agg[i], name |-> CandInfo(agg[i]).name,
          party |-> CandInfo(agg[i]).party, votes |-> CountOf(agg[i]) ] ]

\* the second pass without the "cid not in voted_ids" test of line 274
RECURSIVE ZeroEntries_unfiltered(_)
ZeroEntries_unfiltered(i) ==
    IF i > Len(candidate) THEN << >>
    ELSE << [ candidate_id |-> candidate[i].id, name |-> candidate[i].name,
              party |-> candidate[i].party, votes |-> 0 ] >>
         \o ZeroEntries_unfiltered(i + 1)

\* lines 271-275: the candidates of cand_map, in its order, that no group names
RECURSIVE ZeroEntries(_)
ZeroEntries(i) ==
    IF i > Len(candidate) THEN << >>
    ELSE IF candidate[i].id \in VotedIds THEN ZeroEntries(i + 1)
    ELSE << [ candidate_id |-> candidate[i].id, name |-> candidate[i].name,
              party |-> candidate[i].party, votes |-> 0 ] >> \o ZeroEntries(i + 1)

\* where a stable descending sort puts e in the sorted list s: behind every
\* entry with at least as many votes
RECURSIVE InsertDesc(_, _)
InsertDesc(e, s) ==
    IF s = << >> THEN << e >>
    ELSE IF Head(s).votes >= e.votes THEN << Head(s) >> \o InsertDesc(e, Tail(s))
    ELSE << e >> \o s

\* out.sort(key=lambda x: x["votes"], reverse=True): stable
RECURSIVE SortByVotesDesc(_)
SortByVotesDesc(s) ==
    IF s = << >> THEN << >>
    ELSE InsertDesc(s[Len(s)], SortByVotesDesc(SubSeq(s, 1, Len(s) - 1)))

\* lines 250-279
results ==
    /\ \E agg \in AggOrders :
         out' = SortByVotesDesc(VotedEntries(agg) \o ZeroEntries(1))
    /\ ret' = NoRet
    /\ UNCHANGED <<voter, otprequest, verification, vote, now, ticks, hs>>

(* ------------------------- the request mix ---------------------------- *)

\* the otp strings a client tries: every code issued so far, and a wrong one
OtpInputs == { otprequest[i].otp : i \in DOMAIN otprequest } \cup {WrongOtp}

\* the handlers in H serve requests for the aadhaars in A with the candidate
\* ids in C and the images in I, while at most otpCap codes are issued and
\* the clock advances at most tickCap times
Step(H, A, C, I, otpCap, tickCap) ==
    \/ ticks < tickCap /\ Tick
    \/ \E h \in H, a \in A :
         Len(otprequest) < otpCap /\ send_otp(h, a)
    \/ \E h \in H, a \in A, code \in OtpInputs :
         verify_otp_find(h, a, code)
    \/ \E h \in H : verify_otp_update_req(h)
    \/ \E h \in H : verify_otp_find_ver(h)
    \/ \E h \in H : verify_otp_write_ver(h)
    \/ \E h \in H, a \in A, img \in I :
         verify_face_find(h, a, img)
    \/ \E h \in H : verify_face_update_voter(h)
    \/ \E h \in H : verify_face_find_ver(h)
    \/ \E h \in H : verify_face_write_ver(h)
    \/ \E h \in H, a \in A, cid \in C :
         cast_vote_find_voter(h, a, cid)
    \/ \E h \in H : cast_vote_find_ver(h)
    \/ \E h \in H : cast_vote_find_cand(h)
    \/ \E h \in H : cast_vote_insert_vote(h)
    \/ \E h \in H : cast_vote_update_voter(h)

\* the handlers in H serve status requests for the aadhaars in A
StatusStep(H, A) ==
    \/ \E h \in H, a \in A : status_find_voter(h, a)
    \/ \E h \in H : status_find_ver(h)

\* one request at a time, for a registered aadhaar and the unknown one
Next ==
    \/ Step({1}, {"111122223333", UnknownAadhaar}, CandidateIdInputs,
            ImageInputs, MaxOtp, MaxTicks)
    \/ StatusStep({1}, {"111122223333", UnknownAadhaar})

Spec == Init /\ [][Next]_vars

\* two concurrent requests for one registered aadhaar
NextRace ==
    Step(Handlers, {"111122223333"}, {"c1"},
         { img \in ImageInputs : ~img.prefix /\ img.body # "!" },
         MaxOtpRace, MaxTicksRace)

SpecRace == Init /\ [][NextRace]_vars

\* the otp requests alone, one at a time, for two registered aadhaars
NextOtp ==
    \/ ticks < MaxTicks /\ Tick
    \/ \E a \in {"111122223333", "444455556666"} :
         Len(otprequest) < MaxOtp /\ send_otp(1, a)
    \/ \E a \in {"111122223333", "444455556666"}, code \in OtpInputs :
         verify_otp_find(1, a, code)
    \/ verify_otp_update_req(1)
    \/ verify_otp_find_ver(1)
    \/ verify_otp_write_ver(1)

SpecOtp == Init /\ [][NextOtp]_vars

\* two concurrent requests among send_otp, verify_otp, verify_face and
\* status for one registered aadhaar
NextStatusRace ==
    \/ \E h \in Handlers :
         Len(otprequest) < MaxOtpRace /\ send_otp(h, "111122223333")
    \/ \E h \in Handlers, code \in OtpInputs :
         verify_otp_find(h, "111122223333", code)
    \/ \E h \in Handlers : verify_otp_update_req(h)
    \/ \E h \in Handlers : verify_otp_find_ver(h)
    \/ \E h \in Handlers : verify_otp_write_ver(h)
    \/ \E h \in Handlers :
         verify_face_find(h, "111122223333", [prefix |-> FALSE, body |-> "A"])
    \/ \E h \in Handlers : verify_face_update_voter(h)
    \/ \E h \in Handlers : verify_face_find_ver(h)
    \/ \E h \in Handlers : verify_face_write_ver(h)
    \/ StatusStep(Handlers, {"111122223333"})

SpecStatusRace == Init /\ [][NextStatusRace]_vars

\* the candidate_id strings cast_vote accepts
AcceptedIds ==
    { cid \in CandidateIdInputs \cup { candidate[i].id : i \in DOMAIN candidate } :
        ObjectId(cid) # InvalidId /\ FindCandidate(ObjectId(cid)) # 0 }

VoterSeq == << "111122223333", "444455556666", "777788889999" >>

\* a state after the first n voters went through send_otp, verify_otp,
\* verify_face and cast_vote at time 1, the i-th voting for ids[i]
AfterVotes(ids) ==
    LET n == Len(ids)
        who(i) == VoterSeq[((i - 1) % Len(VoterSeq)) + 1]
        voted == { who(i) : i \in 1..n }
        m == Cardinality(voted)
    IN /\ voter = [ a \in Voters |->
                      IF a \in voted
                      THEN [ face_hash |-> "sha256:A", has_voted |-> TRUE ]
                      ELSE [ face_hash |-> NoHash, has_voted |-> FALSE ] ]
       /\ otprequest = [ i \in 1..m |->
                          [ aadhaar |-> VoterSeq[i], otp |-> GenOtp(1),
                            expires_at |-> 1 + OtpTtl, verified |-> TRUE,
                            created_at |-> << 1, i - 1 >> ] ]
       /\ verification = [ i \in 1..m |->
                            [ aadhaar |-> VoterSeq[i], otp_verified_at |-> 1,
                              face_verified_at |-> 1 ] ]
       /\ vote = [ i \in 1..n |-> [ aadhaar |-> who(i), candidate_id |-> ids[i] ] ]
       /\ now = 1
       /\ ticks = 0
       /\ hs = [ h \in Handlers |-> Idle ]
       /\ ret = NoRet
       /\ out = << >>

InitResults ==
    \E n \in 0..MaxVotes : \E ids \in [ 1..n -> AcceptedIds ] : AfterVotes(ids)

\* the tally, over every ballot log of at most MaxVotes votes
NextResults == results

SpecResults == InitResults /\ [][NextResults]_vars

(* ------------------------------ properties ---------------------------- *)

\* the vote documents of aadhaar a
VotesOf(a) == { i \in DOMAIN vote : vote[i].aadhaar = a }

\* the verification documents of aadhaar a
VerificationsOf(a) == { i \in DOMAIN verification : verification[i].aadhaar = a }

\* some verification document of a has both timestamps set
BothVerified(a) ==
    \E i \in VerificationsOf(a) :
        /\ verification[i].otp_verified_at # NoTime
        /\ verification[i].face_verified_at # NoTime

\* this step is a whole request of kind op: it began and returned at once
Immediate(op) == hs' = hs /\ ret'.op = op

C2_HasVotedOneWay ==
    [][ \A a \in Voters :
          /\ voter[a].has_voted => voter'[a].has_voted
          /\ (~voter[a].has_voted /\ voter'[a].has_voted) =>
                (ret'.op = "cast_vote" /\ ret'.res = "ok" /\ ret'.aadhaar = a)
          /\ voter[a].has_voted =>
                /\ \A h \in Handlers :
                     ~(hs[h].pc = "idle" /\ hs'[h].pc = "cv_find_ver"
                         /\ hs'[h].aadhaar = a)
                /\ (Immediate("cast_vote") /\ ret'.aadhaar = a) =>
                     (ret'.res = "AlreadyVoted" /\ vote' = vote /\ voter' = voter)
      ]_vars

\* C2's case: a cast_vote was answered AlreadyVoted after a vote was recorded
C2_Witness ==
    /\ ret.op = "cast_vote" /\ ret.res = "AlreadyVoted"
    /\ voter[ret.aadhaar].has_voted
    /\ VotesOf(ret.aadhaar) # {}

\* C3: a cast_vote that reaches its verification gate goes on exactly when
\* a verification document of the aadhaar has both timestamps set, and fails
\* with IncompleteVerification, inserting nothing, otherwise; a vote is only
\* ever inserted for an aadhaar with both timestamps set, whichever was
\* set first
C3_VoteOnlyWhenBothVerified ==
    [][ /\ \A h \in Handlers :
             (hs[h].pc = "cv_find_ver" /\ hs'[h] # hs[h]) =>
                /\ vote' = vote
                /\ IF BothVerified(hs[h].aadhaar)
                   THEN hs'[h].pc = "cv_find_cand"
                   ELSE /\ hs'[h] = Idle
                        /\ ret'.op = "cast_vote"
                        /\ ret'.aadhaar = hs[h].aadhaar
                        /\ ret'.res = "IncompleteVerification"
        /\ Len(vote') > Len(vote) => BothVerified(vote'[Len(vote')].aadhaar)
      ]_vars

\* C3's case: a vote was recorded for an aadhaar whose face was verified
\* before its otp
C3_Witness ==
    \E i \in DOMAIN vote : \E j \in VerificationsOf(vote[i].aadhaar) :
        /\ verification[j].face_verified_at # NoTime
        /\ verification[j].face_verified_at < verification[j].otp_verified_at

\* the other order: the otp was verified before the face
C3_WitnessOtpFirst ==
    \E i \in DOMAIN vote : \E j \in VerificationsOf(vote[i].aadhaar) :
        /\ verification[j].otp_verified_at # NoTime
        /\ verification[j].otp_verified_at < verification[j].face_verified_at

\* C4: a verify_otp whose matched request has expires_at behind the clock
\* fails with Expired although aadhaar and code match, and changes neither
\* an otprequest nor a verification document; no verify_otp goes on to its
\* writes with an expired request
C4_ExpiredOtpRejected ==
    [][ /\ \A h \in Handlers :
             (hs[h].pc = "idle" /\ hs'[h].pc = "vo_update_req") =>
                otprequest[hs'[h].req].expires_at >= now
        /\ Immediate("verify_otp") =>
             LET matched == FindOtpRequest(ret'.aadhaar, ret'.otp)
                 expired == { i \in matched : otprequest[i].expires_at < now }
             IN /\ (matched # {} /\ expired = matched) => ret'.res = "Expired"
                /\ ret'.res = "Expired" =>
                     /\ expired # {}
                     /\ otprequest' = otprequest
                     /\ verification' = verification
      ]_vars

\* C4's case: an issued code was tried after its expiry and refused, its
\* request still unverified
C4_Witness ==
    /\ ret.op = "verify_otp" /\ ret.res = "Expired"
    /\ \E i \in DOMAIN otprequest :
         /\ otprequest[i].aadhaar = ret.aadhaar /\ otprequest[i].otp = ret.otp
         /\ otprequest[i].expires_at < now
         /\ ~otprequest[i].verified

\* C5: once a digest has been enrolled for a voter, a later verify_face with
\* the same image bytes is not refused: no FaceMismatch is returned for the
\* digest that a request still in flight has stored as the voter's face_hash
C5_EnrolledBytesAccepted ==
    \A h \in Handlers :
        ( /\ hs[h].enrolled
          /\ ret.op = "verify_face"
          /\ ret.aadhaar = hs[h].aadhaar
          /\ ret.hash = hs[h].hash ) => ret.res = "ok"

\* C6: a stored face_hash is never changed
C6_FaceHashWriteOnce ==
    [][ \A a \in Voters :
          voter[a].face_hash # NoHash => voter'[a].face_hash = voter[a].face_hash
      ]_vars

\* C7: at most one verification document per aadhaar in every reachable state
C7_OneVerificationPerAadhaar ==
    \A a \in Aadhaars : Cardinality(VerificationsOf(a)) <= 1

\* the candidate_id string names a candidate document
Resolves(cid) == ObjectId(cid) # InvalidId /\ FindCandidate(ObjectId(cid)) # 0

KnownIds == { candidate[i].id : i \in DOMAIN candidate }

\* the entries of the returned list for one candidate_id
EntriesOf(cid) == { j \in DOMAIN out : out[j].candidate_id = cid }

\* the votes of the entries 1..n of the returned list that a candidate owns
RECURSIVE KnownVotes(_)
KnownVotes(n) ==
    IF n = 0 THEN 0
    ELSE KnownVotes(n - 1)
           + (IF out[n].candidate_id \in KnownIds THEN out[n].votes ELSE 0)

CandPos(cid) == CHOOSE i \in DOMAIN candidate : candidate[i].id = cid

\* C10: the returned list is in descending order of votes, and candidates
\* with equal votes are in candidate enumeration order
C10_TiesInCandidateOrder ==
    \A i, j \in DOMAIN out :
        i < j =>
          /\ out[i].votes >= out[j].votes
          /\ ( /\ out[i].votes = out[j].votes
               /\ out[i].candidate_id \in KnownIds
               /\ out[j].candidate_id \in KnownIds )
             => CandPos(out[i].candidate_id) < CandPos(out[j].candidate_id)

\* C10's example: candidates A, B, C and votes [A, A, B] give [A 2, B 1, C 0]
C10_Example ==
    ( /\ Len(vote) = 3 /\ out # << >>
      /\ vote[1].candidate_id = "c1" /\ vote[2].candidate_id = "c1"
      /\ vote[3].candidate_id = "c2" )
    => /\ Len(out) = 3
       /\ out[1].candidate_id = "c1" /\ out[1].votes = 2
       /\ out[2].candidate_id = "c2" /\ out[2].votes = 1
       /\ out[3].candidate_id = "c3" /\ out[3].votes = 0

\* the returned list is in descending order of votes
C10_Descending ==
    \A i, j \in DOMAIN out : i < j => out[i].votes >= out[j].votes

\* the otprequest documents of aadhaar a with code otp issued at most OtpTtl
\* seconds ago
FreshRequests(a, code) ==
    { i \in DOMAIN otprequest :
        /\ otprequest[i].aadhaar = a /\ otprequest[i].otp = code
        /\ now <= otprequest[i].created_at[1] + OtpTtl }

C11_WitnessIncomplete ==
    /\ ret.op = "cast_vote" /\ ret.res = "IncompleteVerification"
    /\ Resolves(ret.cand)
    /\ \E j \in VerificationsOf(ret.aadhaar) :
         /\ verification[j].otp_verified_at # NoTime
         /\ verification[j].face_verified_at = NoTime

\* the first gate of cast_vote that aadhaar a and candidate_id cid fail, in
\* the order voter exists, has_voted is false, both verifications present,
\* candidate exists; "ok" when they pass all four
FirstFailingGate(a, cid) ==
    IF a \notin DOMAIN voter THEN "NotFound"
    ELSE IF voter[a].has_voted THEN "AlreadyVoted"
    ELSE IF ~BothVerified(a) THEN "IncompleteVerification"
    ELSE IF ~Resolves(cid) THEN "CandidateNotFound"
    ELSE "ok"

C12_WitnessNotFound ==
    /\ ret.op = "cast_vote" /\ ret.res = "NotFound" /\ ~Resolves(ret.cand)

C12_WitnessAlreadyVoted ==
    /\ ret.op = "cast_vote" /\ ret.res = "AlreadyVoted" /\ ~Resolves(ret.cand)

\* some handler is between the first and the last store operation of a
\* cast_vote
CastVoteInProgress ==
    \E h \in Handlers :
        hs[h].pc \in {"cv_find_ver", "cv_find_cand", "cv_insert_vote", "cv_update_voter"}

C13_InsertBeforeFlag ==
    [][ \A a \in Voters :
          (~voter[a].has_voted /\ voter'[a].has_voted) =>
             (VotesOf(a) # {} /\ vote' = vote)
      ]_vars

\* the otprequest documents with aadhaar a and code otp
Matching(a, code) ==
    { i \in DOMAIN otprequest :
        otprequest[i].aadhaar = a /\ otprequest[i].otp = code }

\* C14: a verify_otp goes on with a request of the supplied aadhaar and the
\* supplied code, the one among them with the newest created_at; it marks
\* that request verified and no other, and writes the verification document
\* of no other aadhaar; a verify_otp fails with InvalidCredential exactly
\* when no request has the aadhaar and the code, and then changes nothing
C14_OtpMatchesAadhaarAndCode ==
    [][ /\ \A h \in Handlers :
             /\ (hs[h].pc = "idle" /\ hs'[h].pc = "vo_update_req") =>
                  LET r == hs'[h].req
                  IN /\ r \in Matching(hs'[h].aadhaar, hs'[h].otp)
                     /\ \A j \in Matching(hs'[h].aadhaar, hs'[h].otp) :
                          NotAfter(otprequest[j].created_at, otprequest[r].created_at)
                     /\ otprequest' = otprequest /\ verification' = verification
             /\ (hs[h].pc = "vo_update_req" /\ hs'[h] # hs[h]) =>
                  /\ DOMAIN otprequest' = DOMAIN otprequest
                  /\ \A i \in DOMAIN otprequest :
                       IF i = hs[h].req
                       THEN /\ otprequest'[i].verified
                            /\ otprequest'[i].aadhaar = hs[h].aadhaar
                            /\ otprequest'[i].otp = hs[h].otp
                       ELSE otprequest'[i] = otprequest[i]
             /\ (hs[h].pc = "vo_write_ver" /\ hs'[h] # hs[h]) =>
                  /\ otprequest[hs[h].req].aadhaar = hs[h].aadhaar
                  /\ otprequest' = otprequest
                  /\ \A i \in DOMAIN verification' :
                       verification'[i].aadhaar # hs[h].aadhaar =>
                          (i \in DOMAIN verification
                             /\ verification'[i] = verification[i])
        /\ Immediate("verify_otp") =>
             /\ ret'.res = "InvalidCredential"
                  <=> Matching(ret'.aadhaar, ret'.otp) = {}
             /\ ret'.res = "InvalidCredential" =>
                  /\ otprequest' = otprequest /\ verification' = verification
                  /\ voter' = voter /\ vote' = vote
      ]_vars

\* C14's case: one code was issued for two aadhaars; a verify_otp for one
\* of them succeeded, and the request and the verification of the other are
\* untouched
C14_Witness ==
    /\ ret.op = "verify_otp" /\ ret.res = "ok"
    /\ \E i, j \in DOMAIN otprequest :
         /\ otprequest[i].otp = ret.otp /\ otprequest[j].otp = ret.otp
         /\ otprequest[i].aadhaar = ret.aadhaar /\ otprequest[i].verified
         /\ otprequest[j].aadhaar # ret.aadhaar /\ ~otprequest[j].verified
         /\ VerificationsOf(otprequest[j].aadhaar) = {}

\* one code was issued twice for one aadhaar; a verify_otp marked the newer
\* request and left the older
C14_WitnessNewest ==
    /\ ret.op = "verify_otp" /\ ret.res = "ok"
    /\ \E i, j \in Matching(ret.aadhaar, ret.otp) :
         i < j /\ otprequest[j].verified /\ ~otprequest[i].verified

\* a code issued for one aadhaar alone was refused for the other
C14_WitnessRefused ==
    /\ ret.op = "verify_otp" /\ ret.res = "InvalidCredential"
    /\ ret.otp # WrongOtp
    /\ \E i \in DOMAIN otprequest : otprequest[i].otp = ret.otp

\* C15: a verify_face that returns FaceMismatch is one step, taken for a
\* voter whose stored face_hash differs from the digest presented, and
\* leaves every voter, verification, otprequest and vote document as it was
C15_FaceMismatchChangesNothing ==
    [][ (ret'.op = "verify_face" /\ ret'.res = "FaceMismatch") =>
           /\ hs' = hs
           /\ voter[ret'.aadhaar].face_hash \notin {NoHash, ret'.hash}
           /\ voter' = voter /\ verification' = verification
           /\ otprequest' = otprequest /\ vote' = vote
      ]_vars

\* C15's case: a FaceMismatch for a voter whose verification document has
\* both timestamps set
C15_Witness ==
    /\ ret.op = "verify_face" /\ ret.res = "FaceMismatch"
    /\ voter[ret.aadhaar].face_hash \notin {NoHash, ret.hash}
    /\ \E j \in VerificationsOf(ret.aadhaar) :
         /\ verification[j].otp_verified_at # NoTime
         /\ verification[j].face_verified_at # NoTime

\* C16: the step in which a verify_otp returns success leaves a document of
\* its aadhaar with otp_verified_at = now and changes the face_verified_at
\* of no verification document; the step in which a verify_face returns
\* success leaves a document of its aadhaar with face_verified_at = now and
\* changes the otp_verified_at of none; a document either inserts has the
\* other timestamp unset
C16_GatesIndependent ==
    [][ \A h \in Handlers :
          /\ (hs[h].pc = "vo_write_ver" /\ hs'[h] # hs[h]) =>
               /\ ret'.op = "verify_otp" /\ ret'.res = "ok"
               /\ \E i \in DOMAIN verification' :
                    /\ verification'[i].aadhaar = hs[h].aadhaar
                    /\ verification'[i].otp_verified_at = now
               /\ \A i \in DOMAIN verification' :
                    verification'[i].face_verified_at =
                       IF i \in DOMAIN verification
                       THEN verification[i].face_verified_at ELSE NoTime
          /\ (hs[h].pc = "vf_write_ver" /\ hs'[h] # hs[h]) =>
               /\ ret'.op = "verify_face" /\ ret'.res = "ok"
               /\ \E i \in DOMAIN verification' :
                    /\ verification'[i].aadhaar = hs[h].aadhaar
                    /\ verification'[i].face_verified_at = now
               /\ \A i \in DOMAIN verification' :
                    verification'[i].otp_verified_at =
                       IF i \in DOMAIN verification
                       THEN verification[i].otp_verified_at ELSE NoTime
      ]_vars

\* C16's case: a verify_otp succeeded after the face had been verified at
\* an earlier time, and the face timestamp is still there
C16_Witness ==
    /\ ret.op = "verify_otp" /\ ret.res = "ok"
    /\ \E j \in VerificationsOf(ret.aadhaar) :
         /\ verification[j].otp_verified_at = now
         /\ verification[j].face_verified_at # NoTime
         /\ verification[j].face_verified_at < now

\* the other order: a verify_face succeeded after the otp had been verified
C16_WitnessOtpFirst ==
    /\ ret.op = "verify_face" /\ ret.res = "ok"
    /\ \E j \in VerificationsOf(ret.aadhaar) :
         /\ verification[j].face_verified_at = now
         /\ verification[j].otp_verified_at # NoTime
         /\ verification[j].otp_verified_at < now

\* C17: a send_otp for a registered aadhaar appends one otprequest document,
\* with the aadhaar, the code returned, verified = FALSE and expires_at =
\* now + 300, and changes no other document; a send_otp for an unknown
\* aadhaar fails with NotFound and changes nothing; a verify_otp is refused
\* at once only if no matching request is unexpired, however many requests
\* were issued since
C17_SendOtpAppendsOne ==
    [][ /\ ret'.op = "send_otp" =>
             /\ hs' = hs
             /\ voter' = voter /\ verification' = verification /\ vote' = vote
             /\ IF ret'.aadhaar \in DOMAIN voter
                THEN /\ ret'.res = "ok"
                     /\ Len(otprequest') = Len(otprequest) + 1
                     /\ \A i \in DOMAIN otprequest : otprequest'[i] = otprequest[i]
                     /\ LET d == otprequest'[Len(otprequest')]
                        IN /\ d.aadhaar = ret'.aadhaar /\ d.otp = ret'.otp
                           /\ d.verified = FALSE
                           /\ d.expires_at = now + OtpTtl
                ELSE /\ ret'.res = "NotFound"
                     /\ otprequest' = otprequest
        /\ Immediate("verify_otp") =>
             \A i \in Matching(ret'.aadhaar, ret'.otp) :
                 otprequest[i].expires_at < now
      ]_vars

\* C17's case: a second code was issued for an aadhaar, and after that a
\* verify_otp with the first code, not yet expired, succeeded
C17_Witness ==
    /\ ret.op = "verify_otp" /\ ret.res = "ok"
    /\ \E i, j \in DOMAIN otprequest :
         /\ i < j
         /\ otprequest[i].aadhaar = ret.aadhaar /\ otprequest[j].aadhaar = ret.aadhaar
         /\ otprequest[i].otp = ret.otp /\ otprequest[j].otp # ret.otp
         /\ otprequest[i].verified /\ ~otprequest[j].verified
         /\ \E k \in VerificationsOf(ret.aadhaar) :
              verification[k].otp_verified_at >= otprequest[j].created_at[1]

\* a send_otp for an unknown aadhaar was refused
C17_WitnessNotFound ==
    /\ ret.op = "send_otp" /\ ret.res = "NotFound" /\ otprequest # << >>

\* C18: no step of a status request changes a document; for a registered
\* aadhaar it returns has_voted as the voter document has it, otp_verified
\* true exactly when a verification document of the aadhaar has
\* otp_verified_at set and face_verified true exactly when one has
\* face_verified_at set; for an unknown aadhaar it fails with NotFound
C18_StatusProjection ==
    [][ /\ \A h \in Handlers :
             (hs'[h] # hs[h]
                /\ (hs'[h].pc = "st_find_ver" \/ hs[h].pc = "st_find_ver")) =>
                /\ voter' = voter /\ verification' = verification
                /\ otprequest' = otprequest /\ vote' = vote
        /\ ret'.op = "status" =>
             /\ voter' = voter /\ verification' = verification
             /\ otprequest' = otprequest /\ vote' = vote
             /\ IF ret'.aadhaar \in DOMAIN voter
                THEN /\ ret'.res = "ok"
                     /\ ret'.has_voted = voter[ret'.aadhaar].has_voted
                     /\ ret'.otp_verified <=>
                          \E i \in VerificationsOf(ret'.aadhaar) :
                              verification[i].otp_verified_at # NoTime
                     /\ ret'.face_verified <=>
                          \E i \in VerificationsOf(ret'.aadhaar) :
                              verification[i].face_verified_at # NoTime
                ELSE ret'.res = "NotFound"
      ]_vars

\* a status for a voter with the otp verified and the face not
C18_StatusOtpOnly ==
    /\ ret.op = "status" /\ ret.res = "ok"
    /\ ret.otp_verified /\ ~ret.face_verified /\ ~ret.has_voted
    /\ VerificationsOf(ret.aadhaar) # {}

\* a status that reports a verification missing which a second
\* verification document of the aadhaar holds
C18_StatusMissesSecondDocument ==
    /\ ret.op = "status" /\ ret.res = "ok"
    /\ \/ /\ ~ret.otp_verified
          /\ \E i \in VerificationsOf(ret.aadhaar) :
               verification[i].otp_verified_at # NoTime
       \/ /\ ~ret.face_verified
          /\ \E i \in VerificationsOf(ret.aadhaar) :
               verification[i].face_verified_at # NoTime

\* what status reports for aadhaar a: the timestamps of the document
\* find_one returns
StatusOtpVerified(a) ==
    LET ver == FindVerification(a)
    IN ver # 0 /\ verification[ver].otp_verified_at # NoTime

StatusFaceVerified(a) ==
    LET ver == FindVerification(a)
    IN ver # 0 /\ verification[ver].face_verified_at # NoTime

\* C19: no step removes a verification or otprequest document, unsets a
\* set otp_verified_at or face_verified_at, or turns verified back to
\* false; what status reports as otp_verified and face_verified never
\* goes from true to false
C19_VerificationMonotonic ==
    [][ /\ \A i \in DOMAIN verification :
             /\ i \in DOMAIN verification'
             /\ verification'[i].aadhaar = verification[i].aadhaar
             /\ verification[i].otp_verified_at # NoTime =>
                  verification'[i].otp_verified_at # NoTime
             /\ verification[i].face_verified_at # NoTime =>
                  verification'[i].face_verified_at # NoTime
        /\ \A i \in DOMAIN otprequest :
             /\ i \in DOMAIN otprequest'
             /\ otprequest[i].verified => otprequest'[i].verified
        /\ verification' # verification =>
             \A a \in Voters :
                 /\ StatusOtpVerified(a) => StatusOtpVerified(a)'
                 /\ StatusFaceVerified(a) => StatusFaceVerified(a)'
      ]_vars

\* C19's case: a cast_vote succeeded after the verified code had expired,
\* and the request is still verified and both timestamps are still set
C19_Witness ==
    /\ ret.op = "cast_vote" /\ ret.res = "ok"
    /\ \E i \in DOMAIN otprequest :
         /\ otprequest[i].aadhaar = ret.aadhaar
         /\ otprequest[i].verified /\ otprequest[i].expires_at < now
    /\ StatusOtpVerified(ret.aadhaar) /\ StatusFaceVerified(ret.aadhaar)

\* further cases: a FaceMismatch and a later send_otp after both
\* verifications
C19_WitnessMismatch ==
    /\ ret.op = "verify_face" /\ ret.res = "FaceMismatch"
    /\ StatusOtpVerified(ret.aadhaar) /\ StatusFaceVerified(ret.aadhaar)
    /\ \E i \in DOMAIN otprequest : otprequest[i].verified

C19_WitnessLaterSend ==
    /\ ret.op = "send_otp" /\ ret.res = "ok"
    /\ StatusOtpVerified(ret.aadhaar)
    /\ otprequest[1].verified /\ Len(otprequest) > 1

\* C20: a verify_otp is refused only for want of a matching request
\* (InvalidCredential) or for the expiry of the matched one (Expired), never
\* because the matched request is already verified; a verify_otp that goes
\* on with an already verified request leaves it verified and returns
\* success with otp_verified_at set to the time of the call's write
C20_VerifiedOtpReusable ==
    [][ /\ Immediate("verify_otp") =>
             /\ ret'.res \in {"InvalidCredential", "Expired"}
             /\ ret'.res = "InvalidCredential" =>
                  Matching(ret'.aadhaar, ret'.otp) = {}
             /\ \A i \in FindOtpRequest(ret'.aadhaar, ret'.otp) :
                  otprequest[i].expires_at < now
        /\ \A h \in Handlers :
             /\ (hs[h].pc = "vo_update_req" /\ hs'[h] # hs[h]
                   /\ otprequest[hs[h].req].verified) =>
                  (otprequest' = otprequest /\ hs'[h].pc = "vo_find_ver")
             /\ (hs[h].pc = "vo_write_ver" /\ hs'[h] # hs[h]) =>
                  /\ ret'.op = "verify_otp" /\ ret'.res = "ok"
                  /\ otprequest'[hs[h].req].verified
                  /\ hs[h].ver # 0 =>
                       verification'[hs[h].ver].otp_verified_at = now
      ]_vars

\* C20's case: the one code issued was verified at an earlier time, and a
\* later verify_otp with it has passed the checks and is about to write
C20_Witness ==
    \E h \in Handlers :
        /\ hs[h].pc = "vo_update_req"
        /\ Len(otprequest) = 1
        /\ otprequest[hs[h].req].verified
        /\ \E j \in VerificationsOf(hs[h].aadhaar) :
             /\ verification[j].otp_verified_at # NoTime
             /\ verification[j].otp_verified_at < now

\* a reuse has returned: the one code issued was accepted again after the
\* face was verified and the vote cast, and otp_verified_at is the time of
\* that call
C20_WitnessRefreshed ==
    /\ ret.op = "verify_otp" /\ ret.res = "ok"
    /\ Len(otprequest) = 1
    /\ \E j \in VerificationsOf(ret.aadhaar) :
         /\ verification[j].otp_verified_at = now
         /\ verification[j].face_verified_at # NoTime
         /\ verification[j].face_verified_at < now
         /\ voter[ret.aadhaar].has_voted

====
